---- MODULE Spec2Model ----
(***************************************************************************)
(* Model of src/pid.py: the four read-only resolvers over /proc and the    *)
(* cgroup v2 mount (list_container_pids_and_names, container_cg2_path,     *)
(* host_pids / _recursive_pids, host_pid_of_container_init), each run as a *)
(* sequence of pseudo-file reads that the operating system may interleave  *)
(* with process exits, process starts and cgroup directory removals.       *)
(***************************************************************************)
EXTENDS Integers, Sequences, FiniteSets, TLC

\* ------------------------------------------------------------------ bounds
\* Host process ids are 1..MaxPid.
MaxPid == 2
\* Operating-system mutations (exit, start, rmdir) counted during one call.
MaxChurn == 3

HostPids == 1..MaxPid

\* ------------------------------------------------------------ the OS view
\* Paths are sequences of one-character strings.
CG2_ROOT == <<"/", "s">>
PathDAB == <<"/", "d", "/", "A", "B">>
PathDABK == <<"/", "d", "/", "A", "B", "/", "k">>
PathEAB == <<"/", "e", "/", "A", "B">>
PathStale == <<"/", "A", "B">>

\* A cgroup node is the sequence of directory names below the mount root.
NodeRoot == <<>>
NodeD == << <<"d">> >>
NodeDAB == << <<"d">>, <<"A", "B">> >>
NodeDABK == << <<"d">>, <<"A", "B">>, <<"k">> >>
NodeE == << <<"e">> >>
NodeEAB == << <<"e">>, <<"A", "B">> >>
Nodes == {NodeRoot, NodeD, NodeDAB, NodeDABK, NodeE, NodeEAB}

\* Container identifiers a caller passes.
CidAb == <<"A", "b">>
CidK == <<"k">>
Cids == {CidAb, CidK}

\* What /proc/<pid> shows for one kind of process.  ns: target of ns/pid;
\* nsErr, stErr, commErr, cgErr: errno of reading ns/pid, status, comm and
\* cgroup ("ok" when readable); hasName/name and hasNSpid/inner: the Name:
\* and NSpid: lines of status (inner = the ids below the host id); cgLines:
\* the lines of cgroup; node/listed: the cgroup whose cgroup.procs lists it.
MkImg(ns, nsErr, stErr, hasName, name, hasNSpid, inner, commErr, cgErr, cgLines, node) ==
    [live |-> TRUE, ns |-> ns, nsErr |-> nsErr, stErr |-> stErr,
     hasName |-> hasName, name |-> name, hasNSpid |-> hasNSpid, inner |-> inner,
     comm |-> name, commErr |-> commErr, cgErr |-> cgErr, cgLines |-> cgLines,
     node |-> node]

V1Line(path) == [v2 |-> FALSE, path |-> path]
V2Line(path) == [v2 |-> TRUE, path |-> path]

ImageIds == {"init1", "work7", "nested", "stale", "noname", "denied", "exiting"}

Img(id) ==
    CASE id = "init1" ->
           MkImg("N1", "ok", "ok", TRUE, "init", TRUE, <<1>>, "ok", "ok",
                 <<V1Line(PathEAB), V2Line(PathDAB)>>, NodeDAB)
      [] id = "work7" ->
           MkImg("N1", "ok", "ok", TRUE, "worker", TRUE, <<7>>, "ok", "ok",
                 <<V2Line(PathDABK)>>, NodeDABK)
      [] id = "nested" ->
           MkImg("N2", "ok", "ok", TRUE, "tini", TRUE, <<8, 1>>, "ok", "ok",
                 <<V2Line(PathDABK)>>, NodeDABK)
      [] id = "stale" ->
           MkImg("N1", "ok", "ok", TRUE, "old", FALSE, <<3>>, "ok", "ok",
                 <<V2Line(PathStale)>>, NodeRoot)
      [] id = "noname" ->
           MkImg("N1", "ok", "ok", FALSE, "sh", TRUE, <<9>>, "ok", "ok",
                 <<V1Line(PathDAB)>>, NodeRoot)
      [] id = "denied" ->
           MkImg("N1", "EACCES", "EACCES", TRUE, "priv", TRUE, <<5>>, "EACCES", "EACCES",
                 <<V2Line(PathDAB)>>, NodeDAB)
      [] id = "exiting" ->
           MkImg("N1", "ok", "ESRCH", TRUE, "gone", TRUE, <<6>>, "ESRCH", "ok",
                 <<V2Line(PathEAB)>>, NodeEAB)
      [] OTHER ->
           [live |-> FALSE, ns |-> "", nsErr |-> "ENOENT", stErr |-> "ENOENT",
            hasName |-> FALSE, name |-> "", hasNSpid |-> FALSE, inner |-> <<>>,
            comm |-> "", commErr |-> "ENOENT", cgErr |-> "ENOENT", cgLines |-> <<>>,
            node |-> NodeRoot]

\* Images a process started during a scan may have.
SpawnImages == {"work7", "nested"}

Live(tbl, p) == tbl[p] # "dead"

\* -------------------------------------------------------------- sequences
Last(s) == s[Len(s)]

IsPrefix(a, b) == Len(a) <= Len(b) /\ SubSeq(b, 1, Len(a)) = a

RECURSIVE SortedSeq(_)
SortedSeq(S) ==
    IF S = {} THEN <<>>
    ELSE LET m == CHOOSE x \in S : \A y \in S : x <= y
         IN <<m>> \o SortedSeq(S \ {m})

Range(s) == {s[i] : i \in 1..Len(s)}

\* ---------------------------------------------------------- /proc parsing
\* The lines of /proc/<pid>/status: Name first, NSpid later, as the kernel
\* writes them.  The NSpid stack starts with the host id.
StatusLines(p, img) ==
    (IF img.hasName THEN <<[key |-> "Name", name |-> img.name, ids |-> <<>>]>> ELSE <<>>)
    \o <<[key |-> "State", name |-> "", ids |-> <<>>]>>
    \o (IF img.hasNSpid THEN <<[key |-> "NSpid", name |-> "", ids |-> <<p>> \o img.inner]>>
        ELSE <<>>)

CpidOfHost(ids) == Head(ids)

\* int(parts[-1]): the id in the innermost namespace.
CpidOf(ids) == Last(ids)

NoFields == [hasName |-> FALSE, name |-> "", hasCpid |-> FALSE, cpid |-> 0]

\* The for-loop over the status lines, with its early break.
RECURSIVE ParseStatus(_, _, _)
ParseStatus(lines, i, st) ==
    IF i > Len(lines) THEN st
    ELSE LET l == lines[i] IN
         IF l.key = "Name"
         THEN ParseStatus(lines, i + 1, [st EXCEPT !.hasName = TRUE, !.name = l.name])
         ELSE IF l.key = "NSpid"
         THEN LET st2 == IF l.ids # <<>>
                         THEN [st EXCEPT !.hasCpid = TRUE, !.cpid = CpidOf(l.ids)]
                         ELSE st
              IN IF st2.hasName /\ st2.hasCpid THEN st2
                 ELSE ParseStatus(lines, i + 1, st2)
         ELSE ParseStatus(lines, i + 1, st)

\* The except clauses of the enumerator's loop body: FileNotFoundError,
\* PermissionError and OSError together catch every errno.
EnumCatches(err) == err \in {"ENOENT", "EACCES", "ESRCH"}

\* The except clause of the three other readers: FileNotFoundError only.
OnlyMissingCaught(err) == err = "ENOENT"

RefFailureAllNotFound(err) == "NotFound"

\* The exception a failed read of the reference's ns/pid turns into.
RefFailure(err) ==
    CASE err = "ENOENT" -> "NotFound"
      [] err = "EACCES" -> "PermissionDenied"
      [] OTHER -> "OSError"

\* The exception an uncaught per-entry read error surfaces as.
Raised(err) == IF err = "EACCES" THEN "PermissionDenied" ELSE "OSError"

\* The errno raised while reading one entry's status and, when the status
\* has no Name line, its comm; "ok" if none.
EntryError(p, img) ==
    IF img.stErr # "ok" THEN img.stErr
    ELSE IF ~ParseStatus(StatusLines(p, img), 1, NoFields).hasName /\ img.commErr # "ok"
    THEN img.commErr
    ELSE "ok"

\* One readable entry's record: the (cpid, name) pair appended, or nothing
\* when the status has no NSpid value.
EntryRecord(p, img) ==
    LET f == ParseStatus(StatusLines(p, img), 1, NoFields)
    IN IF ~f.hasCpid THEN <<>>
       ELSE << <<f.cpid, IF f.hasName THEN f.name ELSE img.comm>> >>

\* results.sort(key=lambda t: t[0]): a stable sort on the first component.
RECURSIVE InsertByCpid(_, _)
InsertByCpid(sorted, t) ==
    IF sorted = <<>> THEN <<t>>
    ELSE IF Head(sorted)[1] <= t[1] THEN <<Head(sorted)>> \o InsertByCpid(Tail(sorted), t)
    ELSE <<t>> \o sorted

SortByCpidKept(s) == s

RECURSIVE SortByCpid(_)
SortByCpid(s) ==
    IF s = <<>> THEN <<>>
    ELSE InsertByCpid(SortByCpid(SubSeq(s, 1, Len(s) - 1)), Last(s))

\* os.listdir("/proc"): the live ids in the order procfs lists them,
\* ascending, and then a non-numeric entry.
SelfEntry == [isdigit |-> FALSE, pid |-> 0]

ListDir(tbl) ==
    LET ord == SortedSeq({p \in HostPids : Live(tbl, p)})
    IN [i \in 1..Len(ord) |-> [isdigit |-> TRUE, pid |-> ord[i]]] \o <<SelfEntry>>

\* ------------------------------------------------------------ path strings
Lower(c) == CASE c = "A" -> "a" [] c = "B" -> "b" [] OTHER -> c

LowerStr(s) == [i \in 1..Len(s) |-> Lower(s[i])]

\* sub in s
Contains(sub, s) ==
    \E i \in 0..(Len(s) - Len(sub)) : SubSeq(s, i + 1, i + Len(sub)) = sub

\* s.lstrip("/")
RECURSIVE LStrip(_)
LStrip(s) == IF s # <<>> /\ Head(s) = "/" THEN LStrip(Tail(s)) ELSE s

\* os.path.join(a, b)
Join(a, b) ==
    IF b # <<>> /\ Head(b) = "/" THEN b
    ELSE IF a # <<>> /\ Last(a) = "/" THEN a \o b
    ELSE a \o <<"/">> \o b

\* The directory names of a path, empty names dropped.
RECURSIVE Components(_, _)
Components(s, word) ==
    IF s = <<>> THEN (IF word = <<>> THEN <<>> ELSE <<word>>)
    ELSE IF Head(s) = "/"
    THEN (IF word = <<>> THEN <<>> ELSE <<word>>) \o Components(Tail(s), <<>>)
    ELSE Components(Tail(s), Append(word, Head(s)))

UnderMount(abs) ==
    /\ IsPrefix(CG2_ROOT, abs)
    /\ Len(abs) = Len(CG2_ROOT) \/ abs[Len(CG2_ROOT) + 1] = "/"

NodeOf(abs) == Components(SubSeq(abs, Len(CG2_ROOT) + 1, Len(abs)), <<>>)

\* os.path.isdir(abs)
IsDir(abs, ds) == UnderMount(abs) /\ NodeOf(abs) \in ds

\* os.path.join(CG2_ROOT, cgpath.lstrip("/"))
AbsOf(cgpath) == Join(CG2_ROOT, LStrip(cgpath))

\* _read_cg2_path_from_proc_cgroup on a readable file: the path of the
\* first line starting with "0::", or nothing.
RECURSIVE FirstV2(_)
FirstV2(lines) ==
    IF lines = <<>> THEN [found |-> FALSE, path |-> <<>>]
    ELSE IF Head(lines).v2 THEN [found |-> TRUE, path |-> Head(lines).path]
    ELSE FirstV2(Tail(lines))

QualifiesNoDirTest(c, r, ds) ==
    /\ r.found
    /\ r.path # <<>>
    /\ Contains(LowerStr(c), LowerStr(r.path))

\* The test of one scanned cgroup path: substring match and isdir.
Qualifies(c, r, ds) ==
    /\ r.found
    /\ r.path # <<>>
    /\ Contains(LowerStr(c), LowerStr(r.path))
    /\ IsDir(AbsOf(r.path), ds)

\* min(candidates, key=len): the first of the shortest.
RECURSIVE MinByLen(_)
MinByLen(cs) ==
    IF Len(cs) = 1 THEN cs[1]
    ELSE LET m == MinByLen(SubSeq(cs, 1, Len(cs) - 1))
         IN IF Len(Last(cs)) < Len(m) THEN Last(cs) ELSE m

\* ------------------------------------------------------------ cgroup tree
Children(n, ds) == {m \in ds : Len(m) = Len(n) + 1 /\ IsPrefix(n, m)}

\* The lines of cgroup.procs in node n: the live ids assigned to n.
CgroupProcs(n, tbl) == SortedSeq({p \in HostPids : Live(tbl, p) /\ Img(tbl[p]).node = n})

RECURSIVE KeepDigits(_)
KeepDigits(lines) ==
    IF lines = <<>> THEN <<>>
    ELSE (IF Head(lines) \in Nat THEN <<Head(lines)>> ELSE <<>>) \o KeepDigits(Tail(lines))

\* _read_pids_from_cgroup_dir: [] when the file is missing.
ReadPidsFromCgroupDir(abs, ds, tbl) ==
    IF IsDir(abs, ds) THEN KeepDigits(CgroupProcs(NodeOf(abs), tbl)) ELSE <<>>

RECURSIVE SetToSeq(_)
SetToSeq(S) ==
    IF S = {} THEN <<>>
    ELSE LET x == CHOOSE y \in S : TRUE IN <<x>> \o SetToSeq(S \ {x})

SubDirsNone(abs, ds) == <<>>

\* The child directories os.walk lists for abs, as paths.
SubDirs(abs, ds) ==
    LET kids == SetToSeq(Children(NodeOf(abs), ds))
    IN [i \in 1..Len(kids) |-> Join(abs, Last(kids[i]))]

SortedSetKept(ps) == ps

\* sorted(set(all_pids))
SortedSet(ps) == SortedSeq(Range(ps))

\* A status file with an NSpid line whose last token is "1".
HasInnermostOne(lines) ==
    \E i \in 1..Len(lines) :
        /\ lines[i].key = "NSpid"
        /\ lines[i].ids # <<>>
        /\ Last(lines[i].ids) = 1

\* ------------------------------------------------------------------ state
VARIABLES
    procs,        \* /proc: host id -> image id, or "dead"
    dirs,         \* the cgroup directories that exist
    cgv2,         \* cgroup.controllers exists at the mount root
    op,           \* the function the caller invoked
    phase,        \* where the call is
    outcome,      \* "running", "ok", or the exception raised
    failedEntry,  \* the scanned entry whose read raised, 0 if none
    refPid,       \* container_host_pid
    cid,          \* container_id
    ref_ns,
    listing,      \* the os.listdir result being iterated
    idx,          \* position of the for-loop
    results,
    candidates,
    cgpath,
    pending,      \* directories os.walk still has to list
    cur,
    all_pids,
    pids,         \* the list host_pid_of_container_init iterates
    enumRet,      \* return values
    pathRet,
    pidsRet,
    initRet,      \* 0 stands for None
    epoch,        \* changes of /proc and the cgroup tree since the call started,
                  \* counted up to MaxChurn
    raisedIn,     \* the phase whose read raised, "" if none
    dirs0,        \* dirs when the current call started
    spawned,      \* a process started since the current call started
    seenNs,       \* host id -> image whose ns/pid the scan read
    seenSt,       \* host id -> image whose status the scan read
    prev          \* the previous call: op, cid, outcome, pidsRet

env == <<procs, dirs, cgv2>>
locals == <<ref_ns, listing, idx, results, candidates, cgpath, pending, cur, all_pids, pids>>
rets == <<enumRet, pathRet, pidsRet, initRet>>
args == <<op, refPid, cid>>
ghost == <<epoch, raisedIn, dirs0, spawned, seenNs, seenSt, prev>>
vars == <<env, args, phase, outcome, failedEntry, locals, rets, ghost>>

Unvisited == [p \in HostPids |-> "unvisited"]
NoPrev == [op |-> "none", cid |-> <<>>, outcome |-> "", pidsRet |-> <<>>]

\* The cgroup directories the processes of a table need.
Ancestors(n) == {SubSeq(n, 1, k) : k \in 0..Len(n)}
Required(tbl) == UNION {Ancestors(Img(tbl[p]).node) : p \in HostPids}

\* Ids are unique per namespace: no two live processes share an image.
TableOk(tbl) == \A p, q \in HostPids : (p # q /\ Live(tbl, p)) => tbl[p] # tbl[q]

Init ==
    /\ procs \in {t \in [HostPids -> ImageIds \cup {"dead"}] : TableOk(t)}
    /\ dirs \in {Required(procs), Required(procs) \cup {NodeD, NodeDAB, NodeDABK}}
    /\ cgv2 \in BOOLEAN
    /\ op = "none" /\ phase = "idle" /\ outcome = "" /\ failedEntry = 0
    /\ refPid = 0 /\ cid = <<>>
    /\ ref_ns = "" /\ listing = <<>> /\ idx = 0 /\ results = <<>>
    /\ candidates = <<>> /\ cgpath = <<>> /\ pending = <<>> /\ cur = <<>>
    /\ all_pids = <<>> /\ pids = <<>>
    /\ enumRet = <<>> /\ pathRet = <<>> /\ pidsRet = <<>> /\ initRet = 0
    /\ epoch = 0 /\ raisedIn = "" /\ dirs0 = dirs /\ spawned = FALSE
    /\ seenNs = Unvisited /\ seenSt = Unvisited
    /\ prev = NoPrev

\* What every call does on entry.
Enter(o) ==
    /\ phase = "idle"
    /\ op' = o
    /\ epoch' = 0
    /\ dirs0' = dirs
    /\ spawned' = FALSE
    /\ UNCHANGED <<env, raisedIn, prev, rets, seenNs, seenSt>>

\* ------------------------------------------- list_container_pids_and_names
\* Lines 32-45: readlink of the reference's ns/pid, then os.listdir.
EnumStart(ref) ==
    /\ Enter("enum")
    /\ refPid' = ref
    /\ LET img == Img(procs[ref]) IN
       IF img.nsErr = "ok"
       THEN /\ ref_ns' = img.ns
            /\ listing' = ListDir(procs)
            /\ idx' = 1
            /\ phase' = "enum_ns"
            /\ outcome' = "running"
       ELSE /\ phase' = "done"
            /\ outcome' = RefFailure(img.nsErr)
            /\ UNCHANGED <<ref_ns, listing, idx>>
    /\ UNCHANGED <<cid, failedEntry, results, candidates, cgpath, pending, cur, all_pids, pids>>

NextIdxStuck(i) == i

\* The for-loop takes the next element of the list it iterates.
NextIdx(i) == i + 1

\* An exception leaves the call: the loop stops where it is.
Raise(err, entry) ==
    /\ phase' = "done"
    /\ outcome' = Raised(err)
    /\ failedEntry' = entry
    /\ raisedIn' = phase

\* Lines 45-52: the isdigit test and the namespace comparison of one entry.
EnumNs ==
    /\ phase = "enum_ns"
    /\ idx <= Len(listing)
    /\ LET e == listing[idx]
           img == Img(procs[e.pid])
       IN IF ~e.isdigit
          THEN /\ idx' = NextIdx(idx)
               /\ UNCHANGED <<phase, seenNs, outcome, failedEntry, raisedIn>>
          ELSE /\ seenNs' = [seenNs EXCEPT ![e.pid] = procs[e.pid]]
               /\ IF img.nsErr # "ok"
                  THEN IF EnumCatches(img.nsErr)
                       THEN idx' = NextIdx(idx) /\ UNCHANGED <<phase, outcome, failedEntry, raisedIn>>
                       ELSE Raise(img.nsErr, e.pid) /\ UNCHANGED idx
                  ELSE IF img.ns # ref_ns
                  THEN idx' = NextIdx(idx) /\ UNCHANGED <<phase, outcome, failedEntry, raisedIn>>
                  ELSE phase' = "enum_st" /\ UNCHANGED <<idx, outcome, failedEntry, raisedIn>>
    /\ UNCHANGED <<env, args, ref_ns, listing, results, candidates,
                   cgpath, pending, cur, all_pids, pids, rets,
                   epoch, dirs0, spawned, seenSt, prev>>

\* Lines 54-90: status, the comm fallback, the append, the except clauses.
EnumSt ==
    /\ phase = "enum_st"
    /\ LET p == listing[idx].pid
           img == Img(procs[p])
           err == EntryError(p, img)
       IN /\ seenSt' = [seenSt EXCEPT ![p] = procs[p]]
          /\ IF err = "ok"
             THEN /\ results' = results \o EntryRecord(p, img)
                  /\ idx' = NextIdx(idx)
                  /\ phase' = "enum_ns"
                  /\ UNCHANGED <<outcome, failedEntry, raisedIn>>
             ELSE IF EnumCatches(err)
             THEN /\ idx' = NextIdx(idx)
                  /\ phase' = "enum_ns"
                  /\ UNCHANGED <<results, outcome, failedEntry, raisedIn>>
             ELSE Raise(err, p) /\ UNCHANGED <<results, idx>>
    /\ UNCHANGED <<env, args, ref_ns, listing, candidates,
                   cgpath, pending, cur, all_pids, pids, rets,
                   epoch, dirs0, spawned, seenNs, prev>>

\* Lines 92-93.
EnumFinish ==
    /\ phase = "enum_ns"
    /\ idx > Len(listing)
    /\ enumRet' = SortByCpid(results)
    /\ phase' = "done"
    /\ outcome' = "ok"
    /\ UNCHANGED <<env, args, failedEntry, locals, pathRet, pidsRet, initRet, ghost>>

\* -------------------------------------------------------- container_cg2_path
\* Lines 133-138, entered from any of the three cgroup entry points:
\* _ensure_cgroup_v2, then os.listdir.
CgStart(o, c) ==
    /\ Enter(o)
    /\ cid' = c
    /\ IF cgv2
       THEN /\ listing' = ListDir(procs)
            /\ idx' = 1
            /\ phase' = "resolve"
            /\ outcome' = "running"
       ELSE /\ phase' = "done"
            /\ outcome' = "UnsupportedHost"
            /\ UNCHANGED <<listing, idx>>
    /\ UNCHANGED <<refPid, failedEntry, ref_ns, results, candidates, cgpath, pending, cur,
                   all_pids, pids>>

ResolveCall(c) == CgStart("resolve", c)
HostPidsCall(c) == CgStart("collect", c)
InitCall(c) == CgStart("init", c)

\* Lines 138-152: one entry of the scan.
ResolveStep ==
    /\ phase = "resolve"
    /\ idx <= Len(listing)
    /\ LET e == listing[idx]
           img == Img(procs[e.pid])
       IN IF ~e.isdigit
          THEN idx' = NextIdx(idx) /\ UNCHANGED <<phase, outcome, failedEntry, raisedIn, candidates>>
          ELSE IF img.cgErr # "ok" /\ ~OnlyMissingCaught(img.cgErr)
          THEN Raise(img.cgErr, e.pid) /\ UNCHANGED <<idx, candidates>>
          ELSE LET r == IF img.cgErr = "ok" THEN FirstV2(img.cgLines)
                        ELSE [found |-> FALSE, path |-> <<>>]
               IN /\ candidates' = IF Qualifies(cid, r, dirs)
                                   THEN Append(candidates, r.path) ELSE candidates
                  /\ idx' = NextIdx(idx)
                  /\ UNCHANGED <<phase, outcome, failedEntry, raisedIn>>
    /\ UNCHANGED <<env, args, ref_ns, listing, results, cgpath, pending, cur, all_pids, pids,
                   rets, epoch, dirs0, spawned, seenNs, seenSt, prev>>

\* Lines 154-162, and the return into host_pids (line 204).
ResolveFinish ==
    /\ phase = "resolve"
    /\ idx > Len(listing)
    /\ IF candidates = <<>>
       THEN /\ phase' = "done"
            /\ outcome' = "NotFound"
            /\ UNCHANGED <<pathRet, cgpath>>
       ELSE /\ pathRet' = MinByLen(candidates)
            /\ IF op = "resolve"
               THEN phase' = "done" /\ outcome' = "ok" /\ UNCHANGED cgpath
               ELSE phase' = "isdir" /\ cgpath' = MinByLen(candidates) /\ UNCHANGED outcome
    /\ UNCHANGED <<env, args, failedEntry, ref_ns, listing, idx, results, candidates,
                   pending, cur, all_pids, pids, enumRet, pidsRet, initRet, ghost>>

\* ------------------------------------------------- host_pids, _recursive_pids
\* Lines 205-208: the isdir test of the resolved root, then os.walk begins.
HostPidsCheck ==
    /\ phase = "isdir"
    /\ IF IsDir(AbsOf(cgpath), dirs)
       THEN /\ pending' = <<AbsOf(cgpath)>>
            /\ phase' = "walk_scan"
            /\ UNCHANGED outcome
       ELSE /\ phase' = "done"
            /\ outcome' = "NotFound"
            /\ UNCHANGED pending
    /\ UNCHANGED <<env, args, failedEntry, ref_ns, listing, idx, results, candidates, cgpath,
                   cur, all_pids, pids, rets, ghost>>

\* os.walk lists the next directory; one it cannot list yields nothing.
WalkScan ==
    /\ phase = "walk_scan"
    /\ pending # <<>>
    /\ LET top == Head(pending) IN
       IF IsDir(top, dirs)
       THEN /\ cur' = top
            /\ pending' = SubDirs(top, dirs) \o Tail(pending)
            /\ phase' = "walk_read"
       ELSE /\ pending' = Tail(pending)
            /\ UNCHANGED <<cur, phase>>
    /\ UNCHANGED <<env, args, outcome, failedEntry, ref_ns, listing, idx, results, candidates,
                   cgpath, all_pids, pids, rets, ghost>>

\* Line 190: the loop body reads cur's cgroup.procs.
WalkRead ==
    /\ phase = "walk_read"
    /\ all_pids' = all_pids \o ReadPidsFromCgroupDir(cur, dirs, procs)
    /\ phase' = "walk_scan"
    /\ UNCHANGED <<env, args, outcome, failedEntry, ref_ns, listing, idx, results, candidates,
                   cgpath, pending, cur, pids, rets, ghost>>

\* Line 192, and the return into host_pid_of_container_init (line 217).
WalkFinish ==
    /\ phase = "walk_scan"
    /\ pending = <<>>
    /\ pidsRet' = SortedSet(all_pids)
    /\ IF op = "collect"
       THEN phase' = "done" /\ outcome' = "ok" /\ UNCHANGED <<pids, idx>>
       ELSE phase' = "init_scan" /\ pids' = SortedSet(all_pids) /\ idx' = 1 /\ UNCHANGED outcome
    /\ UNCHANGED <<env, args, failedEntry, ref_ns, listing, results, candidates, cgpath,
                   pending, cur, all_pids, enumRet, pathRet, initRet, ghost>>

\* ------------------------------------------------ host_pid_of_container_init
\* Lines 217-227: one id of the loop.
InitStep ==
    /\ phase = "init_scan"
    /\ idx <= Len(pids)
    /\ LET p == pids[idx]
           img == Img(procs[p])
       IN IF img.stErr # "ok"
          THEN IF OnlyMissingCaught(img.stErr)
               THEN idx' = NextIdx(idx) /\ UNCHANGED <<phase, outcome, failedEntry, raisedIn, initRet>>
               ELSE Raise(img.stErr, p) /\ UNCHANGED <<idx, initRet>>
          ELSE IF HasInnermostOne(StatusLines(p, img))
          THEN /\ initRet' = p
               /\ phase' = "done"
               /\ outcome' = "ok"
               /\ UNCHANGED <<idx, failedEntry, raisedIn>>
          ELSE idx' = NextIdx(idx) /\ UNCHANGED <<phase, outcome, failedEntry, raisedIn, initRet>>
    /\ UNCHANGED <<env, args, ref_ns, listing, results, candidates, cgpath, pending, cur,
                   all_pids, pids, enumRet, pathRet, pidsRet,
                   epoch, dirs0, spawned, seenNs, seenSt, prev>>

\* Line 228.
InitFinish ==
    /\ phase = "init_scan"
    /\ idx > Len(pids)
    /\ initRet' = 0
    /\ phase' = "done"
    /\ outcome' = "ok"
    /\ UNCHANGED <<env, args, failedEntry, locals, enumRet, pathRet, pidsRet, ghost>>

\* The call is over; the caller may call again.  Nothing of the call is kept
\* but the record of what host_pids last returned.
Return ==
    /\ phase = "done"
    /\ prev' = IF op = "collect"
               THEN [op |-> op, cid |-> cid, outcome |-> outcome, pidsRet |-> pidsRet]
               ELSE NoPrev
    /\ op' = "none" /\ phase' = "idle" /\ outcome' = "" /\ failedEntry' = 0
    /\ refPid' = 0 /\ cid' = <<>>
    /\ ref_ns' = "" /\ listing' = <<>> /\ idx' = 0 /\ results' = <<>>
    /\ candidates' = <<>> /\ cgpath' = <<>> /\ pending' = <<>> /\ cur' = <<>>
    /\ all_pids' = <<>> /\ pids' = <<>>
    /\ enumRet' = <<>> /\ pathRet' = <<>> /\ pidsRet' = <<>> /\ initRet' = 0
    /\ seenNs' = Unvisited /\ seenSt' = Unvisited /\ raisedIn' = ""
    /\ UNCHANGED <<env, epoch, dirs0, spawned>>

\* ------------------------------------------------------ the operating system
Running == phase \notin {"idle", "done"}

Changed == epoch > 0

Churn ==
    /\ Running
    /\ epoch' = IF epoch < MaxChurn THEN epoch + 1 ELSE epoch
    /\ UNCHANGED <<cgv2, args, phase, outcome, failedEntry, locals, rets,
                   raisedIn, dirs0, seenNs, seenSt, prev>>

\* A process exits: its /proc entry and its cgroup.procs line go.
OsExit(p) ==
    /\ Churn
    /\ Live(procs, p)
    /\ procs' = [procs EXCEPT ![p] = "dead"]
    /\ UNCHANGED <<dirs, spawned>>

\* A process starts under a free host id, in an existing cgroup.
OsStart(p, id) ==
    /\ Churn
    /\ ~Live(procs, p)
    /\ \A q \in HostPids : procs[q] # id
    /\ Img(id).node \in dirs
    /\ procs' = [procs EXCEPT ![p] = id]
    /\ spawned' = TRUE
    /\ UNCHANGED dirs

\* An empty leaf cgroup is removed.  The enumerator reads no cgroup file, so
\* removals are drawn only while one of the cgroup readers runs.
OsRmdir(n) ==
    /\ Churn
    /\ op # "enum"
    /\ n \in dirs \ {NodeRoot}
    /\ Children(n, dirs) = {}
    /\ \A p \in HostPids : Live(procs, p) => Img(procs[p]).node # n
    /\ dirs' = dirs \ {n}
    /\ UNCHANGED <<procs, spawned>>

\* -------------------------------------------------------------- behaviours
Step ==
    \/ EnumNs \/ EnumSt \/ EnumFinish
    \/ ResolveStep \/ ResolveFinish
    \/ HostPidsCheck \/ WalkScan \/ WalkRead \/ WalkFinish
    \/ InitStep \/ InitFinish

Call ==
    \/ \E ref \in HostPids : EnumStart(ref)
    \/ \E c \in Cids : ResolveCall(c)
    \/ \E c \in Cids : HostPidsCall(c)
    \/ \E c \in Cids : InitCall(c)

Os ==
    \/ \E p \in HostPids : OsExit(p)
    \/ \E p \in HostPids, id \in SpawnImages : OsStart(p, id)
    \/ \E n \in Nodes : OsRmdir(n)

BoundedExit(p) == epoch < MaxChurn /\ OsExit(p)
BoundedStart(p, id) == epoch < MaxChurn /\ OsStart(p, id)
BoundedRmdir(n) == epoch < MaxChurn /\ OsRmdir(n)

BoundedOs ==
    \/ \E p \in HostPids : BoundedExit(p)
    \/ \E p \in HostPids, id \in SpawnImages : BoundedStart(p, id)
    \/ \E n \in Nodes : BoundedRmdir(n)

\* One call, with the operating system changing /proc and the cgroup tree
\* under it up to MaxChurn times.
Next == Call \/ Step \/ BoundedOs

Spec == Init /\ [][Next]_vars

\* One call, with the operating system changing /proc and the cgroup tree
\* under it without end.  Every step of a started call is eventually taken:
\* the calls are synchronous and nothing in them waits.
NextFree == Call \/ Step \/ Os

FairSpec == Init /\ [][NextFree]_vars /\ WF_vars(Step)

\* Call after call on a host that does not change.
NextStable == Call \/ Step \/ Return

StableSpec == Init /\ [][NextStable]_vars

\* ------------------------------------------------------------ the claims
Listed == {listing[i].pid : i \in {j \in 1..Len(listing) : listing[j].isdigit}}

Position(p) == CHOOSE i \in 1..Len(listing) : listing[i].isdigit /\ listing[i].pid = p

EnumReturned == op = "enum" /\ phase = "done" /\ outcome = "ok"

\* The process the scan found under host id p, at its ns/pid and at its
\* status, is in the reference's namespace.
SeenSameNs(p) ==
    /\ Img(seenNs[p]).nsErr = "ok" /\ Img(seenNs[p]).ns = ref_ns
    /\ Img(seenSt[p]).nsErr = "ok" /\ Img(seenSt[p]).ns = ref_ns

StatusReadable(p) == Img(seenSt[p]).stErr = "ok"

HasStack(p) == Img(seenSt[p]).hasNSpid

NameReadable(p) == Img(seenSt[p]).hasName \/ Img(seenSt[p]).commErr = "ok"

PairOf(p) ==
    LET i == Img(seenSt[p])
    IN <<Last(<<p>> \o i.inner), IF i.hasName THEN i.name ELSE i.comm>>

ResolverReturns ==
    phase = "resolve" /\ (phase' = "isdir" \/ (phase' = "done" /\ outcome' = "ok"))

\* C1, as stated: whenever container_cg2_path returns a path, the directory
\* of that path exists under the mount root at the moment of the return, in
\* every run, also one in which cgroup directories are removed.
C1_ReturnedDirExists == [][ResolverReturns => IsDir(AbsOf(pathRet'), dirs')]_vars

\* C1, amended: every candidate the scan keeps had its directory when the
\* scan tested it, the returned path is one of the candidates, and it still
\* has its directory at the return when no cgroup directory was removed
\* since the call started.
C1_DirExistedWhenTested ==
    [][/\ (phase = "resolve" /\ candidates' # candidates) =>
             /\ candidates' = Append(candidates, Last(candidates'))
             /\ IsDir(AbsOf(Last(candidates')), dirs)
       /\ ResolverReturns =>
             /\ pathRet' \in Range(candidates)
             /\ dirs = dirs0 => IsDir(AbsOf(pathRet'), dirs')]_vars

C1_Witness ==
    /\ op = "resolve" /\ phase = "done" /\ outcome = "ok"
    /\ dirs # dirs0
    /\ IsDir(AbsOf(pathRet), dirs)

\* C2, as stated: in none of the four operations does a failed read of one
\* scanned entry's pseudo-file surface as an error of the call.
C2_NoEntryErrorSurfaces == failedEntry = 0

\* C3, as stated: the returned pairs are exactly the pairs (last id of the
\* stack, display name) of the listed processes in the reference's namespace
\* whose status was readable when the scan read it; none of them is omitted.
C3_ExactlyReadableSameNs ==
    EnumReturned =>
        /\ \A i \in 1..Len(enumRet) :
              \E p \in Listed :
                 SeenSameNs(p) /\ StatusReadable(p) /\ enumRet[i] = PairOf(p)
        /\ \A p \in Listed :
              (SeenSameNs(p) /\ StatusReadable(p)) =>
                 \E i \in 1..Len(enumRet) : enumRet[i] = PairOf(p)

\* C3, amended: when no process started during the scan, the returned pairs
\* are exactly the pairs of the listed processes in the reference's namespace
\* whose status was readable when the scan read it, holds an NSpid stack, and
\* gives a name or leaves comm readable; each such process is returned once.
C3_ExactlyReadableWithStack ==
    (EnumReturned /\ ~spawned) =>
        LET Q == {p \in Listed : /\ SeenSameNs(p) /\ StatusReadable(p)
                                 /\ HasStack(p) /\ NameReadable(p)}
        IN /\ Range(enumRet) = {PairOf(p) : p \in Q}
           /\ Len(enumRet) = Cardinality(Q)

C3_Witness ==
    /\ EnumReturned /\ ~spawned
    /\ Len(enumRet) >= 1
    /\ \E p \in Listed : SeenSameNs(p) /\ StatusReadable(p) /\ ~HasStack(p)

\* C4, as stated: the returned list is strictly ascending by id, for every
\* scan, also one during which processes exit and start.
C4_StrictlyAscending ==
    EnumReturned =>
        \A i, j \in 1..Len(enumRet) : i < j => enumRet[i][1] < enumRet[j][1]

\* C4, amended: the returned list is ascending by id for every scan, and
\* strictly ascending for every scan during which no process started.
C4_AscendingStrictIfNoStart ==
    EnumReturned =>
        /\ \A i, j \in 1..Len(enumRet) : i < j => enumRet[i][1] <= enumRet[j][1]
        /\ ~spawned =>
              \A i, j \in 1..Len(enumRet) : i < j => enumRet[i][1] < enumRet[j][1]

C4_Witness ==
    /\ EnumReturned
    /\ Len(enumRet) = 2
    /\ spawned
    /\ enumRet[1][1] < enumRet[2][1]

CollectReturned == op = "collect" /\ phase = "done" /\ outcome = "ok"

Subtree(n) == {m \in dirs : IsPrefix(n, m)}

Assigned(n) == {p \in HostPids : Live(procs, p) /\ Img(procs[p]).node = n}

StrictlyAscending(s) == \A i, j \in 1..Len(s) : i < j => s[i] < s[j]

\* C5: host_pids returns each id once, ascending; on a tree that did not
\* change during the call it returns exactly the ids assigned to the resolved
\* node or to a node below it; and a node whose cgroup.procs is gone when the
\* walk reads it adds nothing and raises nothing.
C5_UnionOfSubtree ==
    /\ [](CollectReturned =>
            /\ StrictlyAscending(pidsRet)
            /\ ~Changed =>
                  Range(pidsRet) = UNION {Assigned(n) : n \in Subtree(NodeOf(AbsOf(pathRet)))})
    /\ [][(phase = "walk_read" /\ ~IsDir(cur, dirs) /\ phase' # "walk_read") =>
             (all_pids' = all_pids /\ phase' = "walk_scan" /\ outcome' = outcome)]_vars

C5_Witness ==
    /\ CollectReturned /\ ~Changed
    /\ Len(pidsRet) = 2
    /\ Assigned(NodeDAB) # {} /\ Assigned(NodeDABK) # {}
    /\ pathRet = PathDAB

\* The ids of the collector's list whose NSpid stack ends in 1.
InitIds == {p \in Range(pids) : Img(procs[p]).hasNSpid /\ Last(<<p>> \o Img(procs[p]).inner) = 1}

\* C6, as stated (on a host that does not change during the call): once the
\* collector's list is there, host_pid_of_container_init returns its least
\* id whose stack ends in 1, and returns None exactly when there is none.
C6_FirstInitOrNone ==
    (/\ op = "init" /\ phase = "done" /\ ~Changed
     /\ (outcome = "ok" \/ raisedIn = "init_scan")) =>
        /\ outcome = "ok"
        /\ IF InitIds = {} THEN initRet = 0
           ELSE initRet \in InitIds /\ \A q \in InitIds : initRet <= q

\* The listed process p yields a qualifying candidate path.
Yields(p) ==
    LET img == Img(procs[p])
    IN /\ img.cgErr = "ok"
       /\ \E i \in 1..Len(img.cgLines) :
             /\ img.cgLines[i].v2
             /\ \A j \in 1..(i - 1) : ~img.cgLines[j].v2
             /\ Contains(LowerStr(cid), LowerStr(img.cgLines[i].path))
             /\ NodeOf(CG2_ROOT \o img.cgLines[i].path) \in dirs

ShownPath(p) ==
    LET img == Img(procs[p])
        i == CHOOSE k \in 1..Len(img.cgLines) : img.cgLines[k].v2
    IN img.cgLines[i].path

\* C7, as stated (on a cgroup v2 host that does not change during the
\* call): container_cg2_path raises NotFound exactly when no scanned process
\* yields a qualifying path, and otherwise returns the first seen of the
\* shortest qualifying paths.
C7_NotFoundOrShortestFirst ==
    (op = "resolve" /\ phase = "done" /\ cgv2 /\ ~Changed) =>
        LET Q == {p \in Listed : Yields(p)}
        IN IF Q = {} THEN outcome = "NotFound"
           ELSE /\ outcome = "ok"
                /\ \E p \in Q :
                      /\ pathRet = ShownPath(p)
                      /\ \A q \in Q : Len(ShownPath(p)) <= Len(ShownPath(q))
                      /\ \A q \in Q :
                            Len(ShownPath(q)) = Len(ShownPath(p)) => Position(p) <= Position(q)

NothingScanned ==
    /\ listing = <<>> /\ results = <<>> /\ enumRet = <<>>
    /\ seenNs = Unvisited /\ seenSt = Unvisited

\* C8: when the reference's ns/pid cannot be read the enumerator returns no
\* list and has scanned nothing: NotFound when the reference has no /proc
\* entry, PermissionDenied when the read is denied; and it raises one of the
\* two only then.
C8_ReferenceFailure ==
    (op = "enum" /\ phase = "done") =>
        LET err == Img(procs[refPid]).nsErr
        IN /\ (~Changed /\ err = "ENOENT") => (outcome = "NotFound" /\ NothingScanned)
           /\ (~Changed /\ err = "EACCES") => (outcome = "PermissionDenied" /\ NothingScanned)
           /\ outcome \in {"NotFound", "PermissionDenied"} => (err # "ok" /\ NothingScanned)

C8_Witness == op = "enum" /\ phase = "done" /\ outcome = "PermissionDenied"

CollectAgain == op = "collect" /\ phase = "done" /\ prev.op = "collect" /\ prev.cid = cid

\* C9: on a host that does not change, a call of host_pids that follows a
\* call with the same identifier ends as that call ended, with the same
\* ascending list, and no step of a call changes /proc or the cgroup tree.
C9_SameListAgain ==
    /\ [](CollectAgain =>
            /\ outcome = prev.outcome
            /\ pidsRet = prev.pidsRet
            /\ StrictlyAscending(pidsRet))
    /\ [][UNCHANGED <<procs, dirs, cgv2>>]_vars

C9_Witness == CollectAgain /\ outcome = "ok" /\ Len(pidsRet) = 2

\* C10: every started call ends, with a result or an error, however the
\* operating system keeps changing /proc and the cgroup tree meanwhile.
C10_EveryCallEnds == Running ~> (phase = "done")

C10_Witness == phase = "done" /\ epoch = MaxChurn /\ spawned

====
